---- MODULE Spec2Model ----
(***************************************************************************)
(* Model of the activity-driven orchestration loop (Runner.Run), its       *)
(* error-channel task (Runner.handleErrors) and the resource deployer      *)
(* (the Runner.createXxx methods), package experiment.                     *)
(*                                                                         *)
(* The Runner goroutine is a program counter `pc` over the statements of   *)
(* Run.  errCh is an unbuffered channel: a send parks the sender (pc =     *)
(* "send", sendSite = the source line of the send statement) until a       *)
(* receiver takes the value.  Remote API and cluster calls are made        *)
(* against collaborators whose outcome is a nondeterministic choice.       *)
(***************************************************************************)
EXTENDS Integers, Sequences, FiniteSets, TLC

\* ---- bounds of the model ------------------------------------------------
MaxActivities == 2
MaxTags == 2

\* ---- vocabulary ---------------------------------------------------------
TagScan == "scan"
TagRun == "run"
TagOther == "other"
Tags == {TagScan, TagRun, TagOther}

ServiceAccount == "ServiceAccount"
ClusterRole == "ClusterRole"
ClusterRoleBinding == "ClusterRoleBinding"
ConfigMap == "ConfigMap"
Experiment == "Experiment"
Kinds == {ServiceAccount, ClusterRole, ClusterRoleBinding, ConfigMap, Experiment}

\* scenario.Link(rel) yields "" when the relation is absent
ApplicationLinks == {"", "app"}
TemplateLinks == {"", "tmpl"}

TagSeqs == UNION {[1..k -> Tags] : k \in 0..MaxTags}

\* the zero ActivityItem: nothing is offered on activityCh
NoItem == [n |-> 0, tags |-> <<>>]
NoScenario == [up |-> "", template |-> ""]
\* the cluster holds no object of a kind
Absent == [present |-> FALSE, by |-> 0]

VARIABLES
    pc,             \* position of the Run goroutine
    sendSite,       \* source line of the errCh send Run is parked at (0: none)
    raised,         \* lines of the errCh sends started for the current activity
    hePc,           \* position of the handleErrors goroutine
    ctxDone,        \* ctx has been cancelled
    subscribed,     \* the subscriber goroutine has been started
    delivered,      \* number of activities the subscriber has offered so far
    activityCh,     \* item the subscriber is parked sending (NoItem: none)
    activity,       \* the activity being handled
    completed,      \* number of activities whose handling reached the loop top
    scenario,       \* result of GetScenario
    applicationURL,
    templateURL,
    exp,            \* "nil", "fresh" (rendered) or "overlaid" (template applied)
    calls,          \* remote and cluster calls issued for the current activity
    templates,      \* remote template store: URL -> activity that last upserted it
                    \* (0: the template stored before this process started)
    cluster,        \* cluster store: kind -> [present, by]; by = activity whose
                    \* object is stored (0: stored before this process started)
    \* -- the patch command (Options.runner) --
    rpc,            \* position of runner ("idle": the command is not running)
    trialName,      \* o.trialName, a sequence of characters
    oApplication,   \* o.application: "nil" or "app"
    oExperiment,    \* o.experiment: "nil", "direct" (from the input) or
                    \* "generated" (synthesized from the application)
    oResources,     \* o.resources: names handed to the overlay builder
    appResources,   \* Resources declared by the Application read from the input
    trialList,      \* Number of each trial GetAllTrials returned, in list order
    wantedTrial,    \* getTrialByID's result: [index, number] (index 0: none)
    rerr,           \* the error runner returned ("": none)
    out,            \* number of writes to o.Out
    stages,         \* stages of runner executed so far, in order
    inputFiles,     \* o.inputFiles: the values of the --file flag
    fileData,       \* the documents the input files hold, in reading order
    inputData,      \* o.inputData: the documents of the aggregated input
    patchSpec,      \* Spec.Patches of the Experiment the invocation resolves
    patches         \* the mapping createKustomizePatches returned

vars == <<pc, sendSite, raised, hePc, ctxDone, subscribed, delivered, activityCh,
          activity, completed, scenario, applicationURL, templateURL, exp,
          calls, templates, cluster>>

\* the state of the patch command
patch == <<rpc, trialName, oApplication, oExperiment, oResources, appResources,
           trialList, wantedTrial, rerr, out, stages, inputFiles, fileData,
           inputData, patchSpec, patches>>

\* what a single activity's handling works on
local == <<scenario, applicationURL, templateURL, exp>>
\* the goroutines/channels around Run
env == <<hePc, ctxDone, subscribed, delivered, activityCh>>

\* the zero result of getTrialByID
NoTrial == [index |-> 0, number |-> 0]

\* the patch command is not running in the controller process
PatchIdle ==
    /\ rpc = "idle"
    /\ trialName = <<>>
    /\ oApplication = "nil"
    /\ oExperiment = "nil"
    /\ oResources = {}
    /\ appResources = {}
    /\ trialList = <<>>
    /\ wantedTrial = NoTrial
    /\ rerr = ""
    /\ out = 0
    /\ stages = <<>>
    /\ inputFiles = {}
    /\ fileData = <<>>
    /\ inputData = <<>>
    /\ patchSpec = <<>>
    /\ patches = {}

\* ---- New ----------------------------------------------------------------
Init ==
    /\ pc = "Run"
    /\ sendSite = 0
    /\ raised = <<>>
    /\ hePc = "notStarted"
    /\ ctxDone = FALSE
    /\ subscribed = FALSE
    /\ delivered = 0
    /\ activityCh = NoItem
    /\ activity = NoItem
    /\ completed = 0
    /\ scenario = NoScenario
    /\ applicationURL = ""
    /\ templateURL = ""
    /\ exp = "nil"
    /\ calls = <<>>
    /\ templates = [u \in TemplateLinks |-> 0]
    /\ cluster \in [Kinds -> {Absent, [present |-> TRUE, by |-> 0]}]
    /\ PatchIdle

\* ---- control-flow helpers ----------------------------------------------
\* fall through to statement p
Goto(p) ==
    /\ pc' = p
    /\ UNCHANGED <<sendSite, raised, completed>>

\* `r.errCh <- err` at source line `site`: the sender parks at the send
Raise(site) ==
    /\ pc' = "send"
    /\ sendSite' = site
    /\ raised' = Append(raised, site)
    /\ UNCHANGED completed

\* end of the loop body (or `continue`): back to the select at the loop top
LoopTop ==
    /\ pc' = "await"
    /\ completed' = completed + 1
    /\ UNCHANGED <<sendSite, raised>>

Call(op, target, obj) == calls' = Append(calls, <<op, target, obj>>)

\* ---- Runner.Run: start-up ----------------------------------------------
\* line 61: go r.handleErrors(ctx)
GoHandleErrors ==
    /\ pc = "Run"
    /\ hePc' = "running"
    /\ Goto("subscribe")
    /\ UNCHANGED <<ctxDone, subscribed, delivered, activityCh, activity, local,
                   calls, templates, cluster>>
    /\ UNCHANGED patch

\* lines 64-73: SubscribeActivity; a failure panics, otherwise the subscriber
\* goroutine is started on the unbuffered activityCh
SubscribeActivity ==
    /\ pc = "subscribe"
    /\ \/ /\ Goto("panicked")
          /\ UNCHANGED subscribed
       \/ /\ Goto("await")
          /\ subscribed' = TRUE
    /\ UNCHANGED <<hePc, ctxDone, delivered, activityCh, activity, local,
                   calls, templates, cluster>>
    /\ UNCHANGED patch

\* ---- the goroutines around Run -----------------------------------------
\* line 73: subscriber.Subscribe(ctx, activityCh) offers the next activity of
\* the feed and parks until Run receives it
Subscribe ==
    /\ subscribed
    /\ ~ctxDone
    /\ activityCh = NoItem
    /\ delivered < MaxActivities
    /\ \E t \in TagSeqs : activityCh' = [n |-> delivered + 1, tags |-> t]
    /\ delivered' = delivered + 1
    /\ UNCHANGED <<pc, sendSite, raised, completed, hePc, ctxDone, subscribed,
                   activity, local, calls, templates, cluster>>
    /\ UNCHANGED patch

\* the owner of ctx cancels it
Cancel ==
    /\ ~ctxDone
    /\ ctxDone' = TRUE
    /\ UNCHANGED <<pc, sendSite, raised, completed, hePc, subscribed, delivered,
                   activityCh, activity, local, calls, templates, cluster>>
    /\ UNCHANGED patch

\* where Run resumes once the send at `site` has been received: the statement
\* after the send, which is `continue` (or the end of the loop body) except
\* after the two link checks and inside the deploy steps
AfterSend(site) ==
    CASE site = 102 -> "linkTemplate"
      [] site = 107 -> "getApplication"
      [] site \in {219, 227} -> ClusterRole
      [] site \in {235, 243} -> ClusterRoleBinding
      [] site \in {251, 258} -> ConfigMap
      [] site \in {266, 273, 277} -> Experiment
      [] OTHER -> "await"

\* handleErrors with the receive loop of lines 194-212 in force: it takes
\* every error Run sends and returns when ctx is cancelled
handleErrorsLoop ==
    /\ hePc = "running"
    /\ \/ /\ ctxDone
          /\ hePc' = "returned"
          /\ UNCHANGED <<pc, sendSite, completed>>
       \/ /\ pc = "send"
          /\ pc' = AfterSend(sendSite)
          /\ sendSite' = 0
          /\ completed' = IF AfterSend(sendSite) = "await"
                          THEN completed + 1 ELSE completed
          /\ UNCHANGED hePc
    /\ UNCHANGED <<raised, ctxDone, subscribed, delivered, activityCh,
                   activity, local, calls, templates, cluster>>
    /\ UNCHANGED patch

\* lines 192-214: the body of handleErrors is commented out, the goroutine
\* returns at once without ever receiving from errCh
handleErrors ==
    /\ hePc = "running"
    /\ hePc' = "returned"
    /\ UNCHANGED <<pc, sendSite, raised, completed, ctxDone, subscribed,
                   delivered, activityCh, activity, local, calls, templates,
                   cluster>>
    /\ UNCHANGED patch

\* ---- Runner.Run: the loop ----------------------------------------------
\* lines 76-78: case <-ctx.Done(): return
SelectDone ==
    /\ pc = "await"
    /\ ctxDone
    /\ Goto("returned")
    /\ UNCHANGED <<env, activity, local, calls, templates, cluster>>
    /\ UNCHANGED patch

\* a loop that takes the next activity wherever it stands
CanReceiveAnywhere == pc \notin {"Run", "subscribe", "returned", "panicked"}

\* the select at the loop top is the only place Run receives an activity
CanReceive == pc = "await"

\* line 79: case activity := <-activityCh
SelectActivity ==
    /\ CanReceive
    /\ activityCh # NoItem
    /\ activity' = activityCh
    /\ activityCh' = NoItem
    /\ pc' = "tags"
    /\ sendSite' = 0
    /\ raised' = <<>>
    /\ calls' = <<>>
    /\ scenario' = NoScenario
    /\ applicationURL' = ""
    /\ templateURL' = ""
    /\ exp' = "nil"
    /\ UNCHANGED <<completed, hePc, ctxDone, subscribed, delivered, templates,
                   cluster>>
    /\ UNCHANGED patch

\* lines 84-87: exactly one tag is required
CheckTags ==
    /\ pc = "tags"
    /\ IF Len(activity.tags) # 1 THEN Raise(85) ELSE Goto("getScenario")
    /\ UNCHANGED <<env, activity, local, calls, templates, cluster>>
    /\ UNCHANGED patch

\* lines 92-97: GetScenario(activityCtx, activity.URL)
GetScenario ==
    /\ pc = "getScenario"
    /\ Call("GetScenario", "scenario", "-")
    /\ \/ /\ Raise(95)
          /\ UNCHANGED scenario
       \/ /\ \E u \in ApplicationLinks, t \in TemplateLinks :
                 scenario' = [up |-> u, template |-> t]
          /\ Goto("linkUp")
    /\ UNCHANGED <<env, activity, applicationURL, templateURL, exp, templates,
                   cluster>>
    /\ UNCHANGED patch

\* lines 100-103: the application link; a missing link is reported, no continue
LinkUp ==
    /\ pc = "linkUp"
    /\ applicationURL' = scenario.up
    /\ IF scenario.up = "" THEN Raise(102) ELSE Goto("linkTemplate")
    /\ UNCHANGED <<env, activity, scenario, templateURL, exp, calls, templates,
                   cluster>>
    /\ UNCHANGED patch

\* lines 105-108: the template link; a missing link is reported, no continue
LinkTemplate ==
    /\ pc = "linkTemplate"
    /\ templateURL' = scenario.template
    /\ IF scenario.template = "" THEN Raise(107) ELSE Goto("getApplication")
    /\ UNCHANGED <<env, activity, scenario, applicationURL, exp, calls,
                   templates, cluster>>
    /\ UNCHANGED patch

\* lines 110-114: GetApplication(activityCtx, applicationURL)
GetApplication ==
    /\ pc = "getApplication"
    /\ Call("GetApplication", applicationURL, "-")
    /\ \/ Raise(112)
       \/ Goto("scan")
    /\ UNCHANGED <<env, activity, local, templates, cluster>>
    /\ UNCHANGED patch

\* lines 116-120: r.scan(apiApp, scenario)
scan ==
    /\ pc = "scan"
    /\ \/ Raise(118)
       \/ Goto("generateApp")
    /\ UNCHANGED <<env, activity, local, calls, templates, cluster>>
    /\ UNCHANGED patch

\* lines 122-126: r.generateApp(*assembledApp)
generateApp ==
    /\ pc = "generateApp"
    /\ \/ Raise(124)
       \/ Goto("unmarshal")
    /\ UNCHANGED <<env, activity, local, calls, templates, cluster>>
    /\ UNCHANGED patch

\* an extraction whose error is reported without parking and without continue
UnmarshalExperimentNoContinue ==
    /\ pc = "unmarshal"
    /\ \/ /\ raised' = Append(raised, 130)
          /\ pc' = "switch"
          /\ UNCHANGED <<sendSite, completed, exp>>
       \/ /\ exp' = "fresh"
          /\ Goto("switch")
    /\ UNCHANGED <<env, activity, scenario, applicationURL, templateURL, calls,
                   templates, cluster>>
    /\ UNCHANGED patch

\* lines 128-132: the Experiment is extracted from the rendered bytes
UnmarshalExperiment ==
    /\ pc = "unmarshal"
    /\ \/ /\ Raise(130)
          /\ UNCHANGED exp
       \/ /\ exp' = "fresh"
          /\ Goto("switch")
    /\ UNCHANGED <<env, activity, scenario, applicationURL, templateURL, calls,
                   templates, cluster>>
    /\ UNCHANGED patch

\* a switch that handles every tag but Scan as Run
SwitchTagRunByDefault ==
    /\ pc = "switch"
    /\ CASE activity.tags[1] = TagScan -> Goto("toTemplate")
         [] OTHER -> Goto("getTemplate")
    /\ UNCHANGED <<env, activity, local, calls, templates, cluster>>
    /\ UNCHANGED patch

\* lines 134, 135, 146: switch activity.Tags[0]; no default case
SwitchTag ==
    /\ pc = "switch"
    /\ CASE activity.tags[1] = TagScan -> Goto("toTemplate")
         [] activity.tags[1] = TagRun -> Goto("getTemplate")
         [] OTHER -> LoopTop
    /\ UNCHANGED <<env, activity, local, calls, templates, cluster>>
    /\ UNCHANGED patch

\* ---- Scan branch --------------------------------------------------------
\* lines 136-140: server.ClusterExperimentToAPITemplate(exp)
ClusterExperimentToAPITemplate ==
    /\ pc = "toTemplate"
    /\ \/ Raise(138)
       \/ Goto("updateTemplate")
    /\ UNCHANGED <<env, activity, local, calls, templates, cluster>>
    /\ UNCHANGED patch

\* the upsert addressed to the application instead of the template
UpdateTemplateAtApplication ==
    /\ pc = "updateTemplate"
    /\ Call("UpdateTemplate", applicationURL, exp)
    /\ \/ /\ Raise(143)
          /\ UNCHANGED templates
       \/ /\ templates' = [templates EXCEPT ![templateURL] = activity.n]
          /\ LoopTop
    /\ UNCHANGED <<env, activity, local, cluster>>
    /\ UNCHANGED patch

\* lines 142-145: UpdateTemplate(ctx, templateURL, *template)
UpdateTemplate ==
    /\ pc = "updateTemplate"
    /\ Call("UpdateTemplate", templateURL, exp)
    /\ \/ /\ Raise(143)
          /\ UNCHANGED templates
       \/ /\ templates' = [templates EXCEPT ![templateURL] = activity.n]
          /\ LoopTop
    /\ UNCHANGED <<env, activity, local, cluster>>
    /\ UNCHANGED patch

\* ---- Run branch ---------------------------------------------------------
\* a Run deployment with the last two steps exchanged
DeployOrderSwapped ==
    <<ServiceAccount, ClusterRole, ClusterRoleBinding, Experiment, ConfigMap>>

\* lines 166-176: the deploy steps in the order Run calls them
DeployOrder ==
    <<ServiceAccount, ClusterRole, ClusterRoleBinding, ConfigMap, Experiment>>

\* the statement Run reaches when the deploy step of `kind` has returned:
\* the next deploy step, or the end of the loop body after the last one
AfterDeploy(kind) ==
    LET i == CHOOSE j \in 1..Len(DeployOrder) : DeployOrder[j] = kind
    IN  IF i < Len(DeployOrder) THEN Goto(DeployOrder[i + 1]) ELSE LoopTop

\* lines 151-155: GetTemplate(ctx, templateURL)
GetTemplate ==
    /\ pc = "getTemplate"
    /\ Call("GetTemplate", templateURL, "-")
    /\ \/ Raise(153)
       \/ Goto("overlay")
    /\ UNCHANGED <<env, activity, local, templates, cluster>>
    /\ UNCHANGED patch

\* the overlay applied to a copy: exp stays as rendered
OverlayDiscarded ==
    /\ pc = "overlay"
    /\ \/ Raise(159)
       \/ Goto(DeployOrder[1])
    /\ UNCHANGED <<env, activity, local, calls, templates, cluster>>
    /\ UNCHANGED patch

\* lines 158-161: server.APITemplateToClusterExperiment(exp, &previousTemplate)
\* overwrites exp in place
APITemplateToClusterExperiment ==
    /\ pc = "overlay"
    /\ \/ /\ Raise(159)
          /\ UNCHANGED exp
       \/ /\ exp' = "overlaid"
          /\ Goto(DeployOrder[1])
    /\ UNCHANGED <<env, activity, scenario, applicationURL, templateURL, calls,
                   templates, cluster>>
    /\ UNCHANGED patch

\* ---- cluster client: possible results (TRUE: err == nil) ---------------
\* client.Get: fails when the object is absent, may fail when it is present
ClientGet(kind) == IF cluster[kind].present THEN {TRUE, FALSE} ELSE {FALSE}
\* client.Create: fails when the object is present, may fail otherwise
ClientCreate(kind) == IF cluster[kind].present THEN {FALSE} ELSE {TRUE, FALSE}
\* client.Update: fails when the object is absent, may fail otherwise
ClientUpdate(kind) == IF cluster[kind].present THEN {TRUE, FALSE} ELSE {FALSE}

\* the object of the current activity is stored
Stored(kind) == [cluster EXCEPT ![kind] = [present |-> TRUE, by |-> activity.n]]

\* a cluster call in the log: operation, kind, object handed over, err == nil
ClusterCall(op, kind, obj, ok) == <<op, kind, obj, ok>>

\* Create attempted only when the object is known to be absent: a Get that
\* fails although the object exists is passed over
CreateIfNotFound(kind, obj, createSite) ==
    \E g \in ClientGet(kind) :
        IF g \/ cluster[kind].present
        THEN /\ calls' = calls \o <<ClusterCall("Get", kind, "-", g)>>
             /\ UNCHANGED cluster
             /\ AfterDeploy(kind)
        ELSE \E c \in ClientCreate(kind) :
             /\ calls' = calls \o <<ClusterCall("Get", kind, "-", FALSE),
                                    ClusterCall("Create", kind, obj, c)>>
             /\ cluster' = IF c THEN Stored(kind) ELSE cluster
             /\ IF c THEN AfterDeploy(kind) ELSE Raise(createSite)

\* a failed Create attempted a second time before it is reported
CreateWithRetry(kind, obj, createSite) ==
    \E g \in ClientGet(kind) :
        IF g
        THEN /\ calls' = calls \o <<ClusterCall("Get", kind, "-", TRUE)>>
             /\ UNCHANGED cluster
             /\ AfterDeploy(kind)
        ELSE \E c \in ClientCreate(kind) :
             IF c
             THEN /\ calls' = calls \o <<ClusterCall("Get", kind, "-", FALSE),
                                         ClusterCall("Create", kind, obj, TRUE)>>
                  /\ cluster' = Stored(kind)
                  /\ AfterDeploy(kind)
             ELSE \E c2 \in ClientCreate(kind) :
                  /\ calls' = calls \o <<ClusterCall("Get", kind, "-", FALSE),
                                         ClusterCall("Create", kind, obj, FALSE),
                                         ClusterCall("Create", kind, obj, c2)>>
                  /\ cluster' = IF c2 THEN Stored(kind) ELSE cluster
                  /\ IF c2 THEN AfterDeploy(kind) ELSE Raise(createSite)

\* Get, then Create when the Get failed; nothing when the Get succeeded
\* (lines 225-229, 241-245, 256-260)
CreateIfGetFails(kind, obj, createSite) ==
    \E g \in ClientGet(kind) :
        IF g
        THEN /\ calls' = calls \o <<ClusterCall("Get", kind, "-", TRUE)>>
             /\ UNCHANGED cluster
             /\ AfterDeploy(kind)
        ELSE \E c \in ClientCreate(kind) :
             /\ calls' = calls \o <<ClusterCall("Get", kind, "-", FALSE),
                                    ClusterCall("Create", kind, obj, c)>>
             /\ cluster' = IF c THEN Stored(kind) ELSE cluster
             /\ IF c THEN AfterDeploy(kind) ELSE Raise(createSite)

\* the create branch shared by the variants of CreateOrUpdate below
CreateBranch(kind, obj, createSite) ==
    \E c \in ClientCreate(kind) :
        /\ calls' = calls \o <<ClusterCall("Get", kind, "-", FALSE),
                               ClusterCall("Create", kind, obj, c)>>
        /\ cluster' = IF c THEN Stored(kind) ELSE cluster
        /\ IF c THEN AfterDeploy(kind) ELSE Raise(createSite)

\* an upsert step without its else branch: nothing when the Get succeeded
CreateOrSkip(kind, obj, createSite, updateSite) ==
    \E g \in ClientGet(kind) :
        IF g
        THEN /\ calls' = calls \o <<ClusterCall("Get", kind, "-", TRUE)>>
             /\ UNCHANGED cluster
             /\ AfterDeploy(kind)
        ELSE CreateBranch(kind, obj, createSite)

\* an upsert step that drops the error of a failed Update
CreateOrUpdateQuiet(kind, obj, createSite, updateSite) ==
    \E g \in ClientGet(kind) :
        IF g
        THEN \E u \in ClientUpdate(kind) :
             /\ calls' = calls \o <<ClusterCall("Get", kind, "-", TRUE),
                                    ClusterCall("Update", kind, obj, u)>>
             /\ cluster' = IF u THEN Stored(kind) ELSE cluster
             /\ AfterDeploy(kind)
        ELSE CreateBranch(kind, obj, createSite)

\* an upsert step whose else branch repeats the Create instead of updating
CreateOrCreate(kind, obj, createSite, updateSite) ==
    \E g \in ClientGet(kind) :
        IF g
        THEN \E c \in ClientCreate(kind) :
             /\ calls' = calls \o <<ClusterCall("Get", kind, "-", TRUE),
                                    ClusterCall("Create", kind, obj, c)>>
             /\ cluster' = IF c THEN Stored(kind) ELSE cluster
             /\ IF c THEN AfterDeploy(kind) ELSE Raise(updateSite)
        ELSE CreateBranch(kind, obj, createSite)

\* Get, then Create when the Get failed and Update when it succeeded
\* (lines 271-279, 284-295)
CreateOrUpdate(kind, obj, createSite, updateSite) ==
    \E g \in ClientGet(kind) :
        IF g
        THEN \E u \in ClientUpdate(kind) :
             /\ calls' = calls \o <<ClusterCall("Get", kind, "-", TRUE),
                                    ClusterCall("Update", kind, obj, u)>>
             /\ cluster' = IF u THEN Stored(kind) ELSE cluster
             /\ IF u THEN AfterDeploy(kind) ELSE Raise(updateSite)
        ELSE \E c \in ClientCreate(kind) :
             /\ calls' = calls \o <<ClusterCall("Get", kind, "-", FALSE),
                                    ClusterCall("Create", kind, obj, c)>>
             /\ cluster' = IF c THEN Stored(kind) ELSE cluster
             /\ IF c THEN AfterDeploy(kind) ELSE Raise(createSite)

\* `yaml.Unmarshal(data, obj)` failed in a deploy step: reported, step returns
InvalidObject(site) ==
    /\ Raise(site)
    /\ UNCHANGED <<calls, cluster>>

\* lines 216-230
createServiceAccount ==
    /\ pc = ServiceAccount
    /\ \/ InvalidObject(219)
       \/ CreateIfGetFails(ServiceAccount, "bytes", 227)
    /\ UNCHANGED <<env, activity, local, templates>>
    /\ UNCHANGED patch

\* lines 232-246
createClusterRole ==
    /\ pc = ClusterRole
    /\ \/ InvalidObject(235)
       \/ CreateIfGetFails(ClusterRole, "bytes", 243)
    /\ UNCHANGED <<env, activity, local, templates>>
    /\ UNCHANGED patch

\* lines 248-261
createClusterRoleBinding ==
    /\ pc = ClusterRoleBinding
    /\ \/ InvalidObject(251)
       \/ CreateIfGetFails(ClusterRoleBinding, "bytes", 258)
    /\ UNCHANGED <<env, activity, local, templates>>
    /\ UNCHANGED patch

\* lines 263-280
createConfigMap ==
    /\ pc = ConfigMap
    /\ \/ InvalidObject(266)
       \/ CreateOrUpdate(ConfigMap, "bytes", 273, 277)
    /\ UNCHANGED <<env, activity, local, templates>>
    /\ UNCHANGED patch

\* lines 282-296: deploys the exp object Run hands over
createExperiment ==
    /\ pc = Experiment
    /\ CreateOrUpdate(Experiment, exp, 287, 293)
    /\ UNCHANGED <<env, activity, local, templates>>
    /\ UNCHANGED patch

\* ---- the system ---------------------------------------------------------
\* one step of the Run goroutine
Run ==
    \/ GoHandleErrors
    \/ SubscribeActivity
    \/ SelectDone
    \/ SelectActivity
    \/ CheckTags
    \/ GetScenario
    \/ LinkUp
    \/ LinkTemplate
    \/ GetApplication
    \/ scan
    \/ generateApp
    \/ UnmarshalExperiment
    \/ SwitchTag
    \/ ClusterExperimentToAPITemplate
    \/ UpdateTemplate
    \/ GetTemplate
    \/ APITemplateToClusterExperiment
    \/ createServiceAccount
    \/ createClusterRole
    \/ createClusterRoleBinding
    \/ createConfigMap
    \/ createExperiment

Next ==
    \/ Run
    \/ handleErrors
    \/ Subscribe
    \/ Cancel

Spec == Init /\ [][Next]_vars

\* the Go scheduler runs every goroutine that can take a step
FairSpec == Spec /\ WF_vars(Run) /\ WF_vars(handleErrors)

\* ==== the patch command (package patch) ==================================
\* ---- bounds ------------------------------------------------------------
MaxNameLen == 3
MaxTrials == 2

\* ---- strings are sequences of characters ------------------------------
Chars == {"e", "-", "+", "0", "1"}
Digits == {"0", "1", "2", "3", "4", "5", "6", "7", "8", "9"}
DigitVal(c) ==
    CASE c = "0" -> 0 [] c = "1" -> 1 [] c = "2" -> 2 [] c = "3" -> 3
      [] c = "4" -> 4 [] c = "5" -> 5 [] c = "6" -> 6 [] c = "7" -> 7
      [] c = "8" -> 8 [] c = "9" -> 9

\* "e-9223372036854775808": a trial number one past the largest int
HugeName ==
    <<"e", "-", "9", "2", "2", "3", "3", "7", "2", "0", "3", "6", "8", "5", "4",
      "7", "7", "5", "8", "0", "8">>

\* values of the --trialname flag
TrialNames == UNION {[1..k -> Chars] : k \in 0..MaxNameLen} \cup {HugeName}

\* Number of the completed trials of the remote API
TrialNumbers == {0, 1, 10}
TrialLists == UNION {[1..k -> TrialNumbers] : k \in 0..MaxTrials}

\* ---- strings.LastIndex, slicing, strconv.Atoi ---------------------------
\* strings.LastIndex(s, c): 0-based index of the last c in s, -1 if none
LastIndex(s, c) ==
    LET hits == {i \in DOMAIN s : s[i] = c}
    IN  IF hits = {} THEN 0 - 1
        ELSE (CHOOSE i \in hits : \A j \in hits : j <= i) - 1

\* s[from:] with a 0-based `from`
SliceFrom(s, from) == SubSeq(s, from + 1, Len(s))

\* line 350: o.trialName[strings.LastIndex(o.trialName, "-")+1:]
TrialNum(name) == SliceFrom(name, LastIndex(name, "-") + 1)

\* decimal digits of the largest int (strconv.IntSize = 64): 2^63 - 1
MaxIntDigits ==
    <<"9", "2", "2", "3", "3", "7", "2", "0", "3", "6", "8", "5", "4", "7", "7",
      "5", "8", "0", "7">>

RECURSIVE StripZeros(_)
StripZeros(d) ==
    IF Len(d) > 1 /\ d[1] = "0" THEN StripZeros(Tail(d)) ELSE d

\* a > b for digit strings of equal length
RECURSIVE DigitsGreater(_, _)
DigitsGreater(a, b) ==
    IF a = <<>> THEN FALSE
    ELSE IF DigitVal(a[1]) # DigitVal(b[1]) THEN DigitVal(a[1]) > DigitVal(b[1])
    ELSE DigitsGreater(Tail(a), Tail(b))

\* the magnitude does not fit an int
OutOfRange(d) ==
    LET m == StripZeros(d)
    IN  \/ Len(m) > Len(MaxIntDigits)
        \/ Len(m) = Len(MaxIntDigits) /\ DigitsGreater(m, MaxIntDigits)

RECURSIVE DigitsValue(_, _)
DigitsValue(d, acc) ==
    IF d = <<>> THEN acc ELSE DigitsValue(Tail(d), acc * 10 + DigitVal(d[1]))

\* strconv.Atoi: an optional sign, then one or more decimal digits
Atoi(s) ==
    LET signed == s # <<>> /\ s[1] \in {"+", "-"}
        d == IF signed THEN Tail(s) ELSE s
    IN  IF d = <<>> \/ \E i \in DOMAIN d : d[i] \notin Digits
        THEN [err |-> "invalid syntax", val |-> 0]
        ELSE IF OutOfRange(d)
        THEN [err |-> "value out of range", val |-> 0]
        ELSE [err |-> "",
              val |-> IF signed /\ s[1] = "-"
                      THEN 0 - DigitsValue(d, 0) ELSE DigitsValue(d, 0)]

\* ---- getTrials / getTrialByID -------------------------------------------
\* lines 373-388: the ways getTrials fails
GetTrialsErrors ==
    {"unable to connect to api server", "GetExperimentByName failed",
     "unable to identify trial", "GetAllTrials failed"}

\* what getTrials can return
GetTrialsResults ==
    {[err |-> e, trials |-> <<>>] : e \in GetTrialsErrors}
        \cup {[err |-> "", trials |-> l] : l \in TrialLists}

\* a scan without `break`: the last trial with the wanted Number
RECURSIVE LastMatch(_, _, _)
LastMatch(trials, i, number) ==
    IF i > Len(trials) THEN 0
    ELSE LET later == LastMatch(trials, i + 1, number)
         IN  IF later # 0 THEN later
             ELSE IF trials[i] = number THEN i ELSE 0

\* lines 357-363: index of the first trial from position i on whose Number is
\* the wanted one, 0 when the loop ends without one
RECURSIVE FirstMatch(_, _, _)
FirstMatch(trials, i, number) ==
    IF i > Len(trials) THEN 0
    ELSE IF trials[i] = number THEN i
    ELSE FirstMatch(trials, i + 1, number)

\* lines 339-370: getTrialByID for the list or error getTrials returned
GetTrialByID(name, got) ==
    IF got.err # "" THEN [err |-> got.err, trial |-> NoTrial]
    ELSE LET parsed == Atoi(TrialNum(name))
         IN  IF parsed.err # "" THEN [err |-> parsed.err, trial |-> NoTrial]
             ELSE LET i == FirstMatch(got.trials, 1, parsed.val)
                  IN  IF i = 0
                      THEN [err |-> "trial not found", trial |-> NoTrial]
                      ELSE [err |-> "",
                            trial |-> [index |-> i, number |-> got.trials[i]]]

\* ---- Options.runner ------------------------------------------------------
MaxItems == 2

\* values of the --file flag ("-" is stdin)
InputFiles == {"-", "dir/experiment.yaml"}

\* lines 127-136: the name an input file is stored and tracked under
BaseName(filename) ==
    CASE filename = "-" -> "stdin.yaml"
      [] filename = "dir/experiment.yaml" -> "experiment.yaml"

\* Resources of the Application of the input
ApplicationFiles == {"deployment.yaml"}

\* line 322: fmt.Sprintf("%s%d%s", "application-assets", idx, ".yaml")
AssetName(idx) ==
    CASE idx = 0 -> "application-assets0.yaml"
      [] idx = 1 -> "application-assets1.yaml"
      [] idx = 2 -> "application-assets2.yaml"
      [] idx = 3 -> "application-assets3.yaml"

\* what gen.Generate can return: the kinds of list.Items
GeneratedLists == UNION {[1..k -> {"Experiment", "Other"}] : k \in 0..MaxItems}

\* lines 316-335: the number of items the loop visits (it breaks at the
\* first Experiment)
Visited(items) ==
    LET hits == {i \in DOMAIN items : items[i] = "Experiment"}
    IN  IF hits = {} THEN Len(items)
        ELSE CHOOSE i \in hits : \A j \in hits : i <= j

\* ---- the aggregated input and filter -------------------------------------
MaxDocs == 2

\* a document of the input: its Kind (Unreadable when GetMeta fails on it) and
\* its position in the input
Unreadable == "unreadable"
DocKinds == {"Application", "Experiment", "ConfigMap"}
Documents ==
    UNION {{[i \in 1..k |-> [kind |-> kinds[i], at |-> i]] :
               kinds \in [1..k -> DocKinds \cup {Unreadable}]} : k \in 0..MaxDocs}

\* an input of one document
OneDocument(kind) == <<[kind |-> kind, at |-> 1]>>

\* a filter that stops at the first document of the kind
RECURSIVE filterFirst(_, _)
filterFirst(kind, input) ==
    IF input = <<>> THEN [err |-> FALSE, output |-> <<>>]
    ELSE IF Head(input).kind = Unreadable THEN [err |-> TRUE, output |-> <<>>]
    ELSE IF Head(input).kind = kind
    THEN [err |-> FALSE, output |-> <<Head(input)>>]
    ELSE filterFirst(kind, Tail(input))

\* lines 202-217: the documents of the kind, in input order; an error and no
\* output when GetMeta fails on a document
RECURSIVE filter(_, _)
filter(kind, input) ==
    IF input = <<>> THEN [err |-> FALSE, output |-> <<>>]
    ELSE IF Head(input).kind = Unreadable THEN [err |-> TRUE, output |-> <<>>]
    ELSE LET rest == filter(kind, Tail(input))
         IN  IF rest.err THEN rest
             ELSE IF Head(input).kind # kind THEN rest
             ELSE [err |-> FALSE, output |-> <<Head(input)>> \o rest.output]

Stage(name) == stages' = Append(stages, name)

\* `return err` of runner
Return(err) == rpc' = "returned" /\ rerr' = err

\* lines 220-222
CheckTrialName ==
    /\ rpc = "runner"
    /\ Stage("runner")
    /\ IF trialName = <<>>
       THEN Return("a trial name must be specified")
       ELSE rpc' = "readInput" /\ UNCHANGED rerr
    /\ UNCHANGED <<trialName, oApplication, oExperiment, oResources,
                   appResources, trialList, wantedTrial, out>>
    /\ UNCHANGED <<inputFiles, fileData, inputData, patchSpec, patches>>
    /\ UNCHANGED vars

\* lines 101-153 and 224-226: every file read is tracked under its base name;
\* a failure leaves the names of the files read before it
readInput ==
    /\ rpc = "readInput"
    /\ Stage("readInput")
    /\ \/ \E read \in SUBSET inputFiles :
             /\ oResources' = oResources \cup {BaseName(f) : f \in read}
             /\ Return("readInput failed")
             /\ UNCHANGED inputData
       \/ /\ oResources' = oResources \cup {BaseName(f) : f \in inputFiles}
          /\ inputData' = fileData
          /\ rpc' = "extractApplication"
          /\ UNCHANGED rerr
    /\ UNCHANGED <<trialName, oApplication, oExperiment, appResources,
                   trialList, wantedTrial, out>>
    /\ UNCHANGED <<inputFiles, fileData, patchSpec, patches>>
    /\ UNCHANGED vars

\* lines 155-176 and 229-231
extractApplication ==
    /\ rpc = "extractApplication"
    /\ Stage("extractApplication")
    /\ LET found == filter("Application", inputData)
       IN  IF found.err
           THEN /\ Return("got an error when looking for application")
                /\ UNCHANGED <<oApplication, appResources>>
           ELSE IF found.output = <<>>
           THEN /\ rpc' = "extractExperiment"
                /\ UNCHANGED <<rerr, oApplication, appResources>>
           ELSE /\ oApplication' = "app"
                /\ \/ /\ Return("got an error when looking for application")
                      /\ UNCHANGED appResources
                   \/ /\ rpc' = "extractExperiment"
                      /\ appResources' \in SUBSET ApplicationFiles
                      /\ UNCHANGED rerr
    /\ UNCHANGED <<trialName, oExperiment, oResources, trialList, wantedTrial,
                   out>>
    /\ UNCHANGED <<inputFiles, fileData, inputData, patchSpec, patches>>
    /\ UNCHANGED vars

\* lines 178-199 and 234-236
extractExperiment ==
    /\ rpc = "extractExperiment"
    /\ Stage("extractExperiment")
    /\ LET found == filter("Experiment", inputData)
       IN  IF found.err
           THEN /\ Return("got an error when looking for experiment")
                /\ UNCHANGED oExperiment
           ELSE IF found.output = <<>>
           THEN /\ rpc' = "switch"
                /\ UNCHANGED <<rerr, oExperiment>>
           ELSE /\ oExperiment' = "direct"
                /\ \/ Return("got an error when looking for experiment")
                   \/ rpc' = "switch" /\ UNCHANGED rerr
    /\ UNCHANGED <<trialName, oApplication, oResources, appResources,
                   trialList, wantedTrial, out>>
    /\ UNCHANGED <<inputFiles, fileData, inputData, patchSpec, patches>>
    /\ UNCHANGED vars

\* a switch that adds the Application's files to the tracked names
SwitchInputAppend ==
    /\ rpc = "switch"
    /\ Stage("switch")
    /\ IF oApplication # "nil"
       THEN /\ oResources' = oResources \cup appResources
            /\ rpc' = "generateExperiment"
            /\ UNCHANGED rerr
       ELSE IF oExperiment # "nil"
       THEN /\ rpc' = "checkExperiment"
            /\ UNCHANGED <<rerr, oResources>>
       ELSE /\ Return("unable to identify an experiment or application")
            /\ UNCHANGED oResources
    /\ UNCHANGED <<trialName, oApplication, oExperiment, appResources,
                   trialList, wantedTrial, out>>
    /\ UNCHANGED <<inputFiles, fileData, inputData, patchSpec, patches>>
    /\ UNCHANGED vars

\* lines 238-254
SwitchInput ==
    /\ rpc = "switch"
    /\ Stage("switch")
    /\ IF oApplication # "nil"
       THEN /\ oResources' = appResources
            /\ rpc' = "generateExperiment"
            /\ UNCHANGED rerr
       ELSE IF oExperiment # "nil"
       THEN /\ rpc' = "checkExperiment"
            /\ UNCHANGED <<rerr, oResources>>
       ELSE /\ Return("unable to identify an experiment or application")
            /\ UNCHANGED oResources
    /\ UNCHANGED <<trialName, oApplication, oExperiment, appResources,
                   trialList, wantedTrial, out>>
    /\ UNCHANGED <<inputFiles, fileData, inputData, patchSpec, patches>>
    /\ UNCHANGED vars

\* lines 298-337 and 247-249
generateExperiment ==
    /\ rpc = "generateExperiment"
    /\ Stage("generateExperiment")
    /\ \/ /\ Return("generateExperiment failed")
          /\ UNCHANGED <<oResources, oExperiment>>
       \/ \E items \in GeneratedLists :
             /\ oResources' =
                    oResources \cup {AssetName(i - 1) : i \in 1..Visited(items)}
             /\ oExperiment' =
                    IF \E i \in DOMAIN items : items[i] = "Experiment"
                    THEN "generated" ELSE oExperiment
             /\ rpc' = "checkExperiment"
             /\ UNCHANGED rerr
    /\ UNCHANGED <<trialName, oApplication, appResources, trialList,
                   wantedTrial, out>>
    /\ UNCHANGED <<inputFiles, fileData, inputData, patchSpec, patches>>
    /\ UNCHANGED vars

\* a runner that goes on without an experiment
CheckExperimentSkipped ==
    /\ rpc = "checkExperiment"
    /\ Stage("checkExperiment")
    /\ rpc' = "getTrialByID"
    /\ UNCHANGED rerr
    /\ UNCHANGED <<trialName, oApplication, oExperiment, oResources,
                   appResources, trialList, wantedTrial, out>>
    /\ UNCHANGED <<inputFiles, fileData, inputData, patchSpec, patches>>
    /\ UNCHANGED vars

\* lines 257-259
CheckExperiment ==
    /\ rpc = "checkExperiment"
    /\ Stage("checkExperiment")
    /\ IF oExperiment = "nil"
       THEN Return("unable to find an experiment")
       ELSE rpc' = "getTrialByID" /\ UNCHANGED rerr
    /\ UNCHANGED <<trialName, oApplication, oExperiment, oResources,
                   appResources, trialList, wantedTrial, out>>
    /\ UNCHANGED <<inputFiles, fileData, inputData, patchSpec, patches>>
    /\ UNCHANGED vars

\* lines 262-265 with 339-388
getTrialByID ==
    /\ rpc = "getTrialByID"
    /\ Stage("getTrialByID")
    /\ \E got \in GetTrialsResults :
          LET found == GetTrialByID(trialName, got)
          IN  /\ trialList' = got.trials
              /\ wantedTrial' = found.trial
              /\ IF found.err # ""
                 THEN Return(found.err)
                 ELSE rpc' = "createKustomizePatches" /\ UNCHANGED rerr
    /\ UNCHANGED <<trialName, oApplication, oExperiment, oResources,
                   appResources, out>>
    /\ UNCHANGED <<inputFiles, fileData, inputData, patchSpec, patches>>
    /\ UNCHANGED vars

\* ---- createKustomizePatches ----------------------------------------------
MaxPatches == 2

\* a field of a JSON object: absent, or present with a string value; strings
\* are sequences of pieces, "/" being a piece of its own
Missing == [present |-> FALSE, val |-> <<>>]
Field(v) == [present |-> TRUE, val |-> v]

\* target references RenderTemplate can resolve (corev1.ObjectReference)
Refs ==
    [name : {<<>>, <<"web">>},
     namespace : {<<>>, <<"default">>},
     apiVersion : {<<>>, <<"v1">>, <<"apps", "/", "v1">>,
                   <<"a", "/", "b", "/", "c">>},
     kind : {<<>>, <<"Deployment">>}]

\* rendered patch data: text that is no JSON, a JSON array, the JSON null, or
\* a JSON object; `metadata` tells whether the object's "metadata" is absent,
\* an object (holding name and namespace) or a value of another type
NotJSON ==
    [json |-> "invalid", metadata |-> "absent", name |-> Missing,
     namespace |-> Missing, apiVersion |-> Missing, kind |-> Missing]
ArrayJSON ==
    [json |-> "array", metadata |-> "absent", name |-> Missing,
     namespace |-> Missing, apiVersion |-> Missing, kind |-> Missing]
NullJSON ==
    [json |-> "null", metadata |-> "absent", name |-> Missing,
     namespace |-> Missing, apiVersion |-> Missing, kind |-> Missing]
BareObject ==
    [json |-> "object", metadata |-> "absent", name |-> Missing,
     namespace |-> Missing, apiVersion |-> Missing, kind |-> Missing]
SpoofObject ==
    [json |-> "object", metadata |-> "object", name |-> Field(<<"db">>),
     namespace |-> Field(<<"other">>),
     apiVersion |-> Field(<<"batch", "/", "v1">>), kind |-> Field(<<"Job">>)]
StringMetadata ==
    [json |-> "object", metadata |-> "other", name |-> Missing,
     namespace |-> Missing, apiVersion |-> Missing, kind |-> Missing]
Bodies ==
    {NotJSON, ArrayJSON, NullJSON, BareObject, SpoofObject, StringMetadata}

\* a PatchTemplate, by what rendering it gives: a template that fails to
\* execute, or the target reference and the data it renders to
FailingTemplate ==
    [fails |-> TRUE,
     target |-> [name |-> <<>>, namespace |-> <<>>, apiVersion |-> <<>>,
                 kind |-> <<>>],
     data |-> NotJSON]
Templates ==
    {FailingTemplate} \cup [fails : {FALSE}, target : Refs, data : Bodies]

WebDeployment ==
    [name |-> <<"web">>, namespace |-> <<"default">>,
     apiVersion |-> <<"apps", "/", "v1">>, kind |-> <<"Deployment">>]
EmptyRef ==
    [name |-> <<>>, namespace |-> <<>>, apiVersion |-> <<>>, kind |-> <<>>]

\* the templates that follow the first one of a list
FollowingTemplates ==
    {FailingTemplate}
        \cup [fails : {FALSE}, target : {WebDeployment, EmptyRef}, data : Bodies]

\* Spec.Patches of an Experiment: at most MaxPatches templates
RECURSIVE Following(_)
Following(n) ==
    IF n = 0 THEN {<<>>}
    ELSE Following(n - 1)
            \cup {Append(l, t) : l \in {m \in Following(n - 1) : Len(m) = n - 1},
                                 t \in FollowingTemplates}
PatchSpecs ==
    {<<>>} \cup {<<t>> \o rest : t \in Templates, rest \in Following(MaxPatches - 1)}

\* line 396, patch.RenderTemplate: fails when the template does not execute
\* or the target it renders is empty
RenderTemplate(p) ==
    IF p.fails \/ p.target = EmptyRef
    THEN [err |-> TRUE, ref |-> EmptyRef, data |-> NotJSON]
    ELSE [err |-> FALSE, ref |-> p.target, data |-> p.data]

\* schema.ParseGroupVersion
ParseGroupVersion(gv) ==
    LET slashes == {i \in DOMAIN gv : gv[i] = "/"}
    IN  IF gv = <<>> \/ gv = <<"/">>
        THEN [err |-> FALSE, group |-> <<>>, version |-> <<>>]
        ELSE IF slashes = {}
        THEN [err |-> FALSE, group |-> <<>>, version |-> gv]
        ELSE IF Cardinality(slashes) = 1
        THEN LET i == CHOOSE j \in slashes : TRUE
             IN  [err |-> FALSE, group |-> SubSeq(gv, 1, i - 1),
                  version |-> SubSeq(gv, i + 1, Len(gv))]
        ELSE [err |-> TRUE, group |-> <<>>, version |-> <<>>]

\* ref.GroupVersionKind(): schema.FromAPIVersionAndKind
GroupVersionKind(apiVersion, kind) ==
    LET gv == ParseGroupVersion(apiVersion)
    IN  [group |-> gv.group, version |-> gv.version, kind |-> kind]

\* GroupVersion.String()
GroupVersionString(group, version) ==
    IF group # <<>> THEN group \o <<"/">> \o version ELSE version

\* lines 403-406: json.Unmarshal of the data into a map; null is no error and
\* leaves the map without entries
Unmarshal(data) ==
    [err |-> data.json \notin {"object", "null"},
     m |-> IF data.json = "null" THEN BareObject ELSE data]

\* lines 408-419: the content first, then Name, Namespace and GVK of the
\* reference, then MarshalJSON. SetName and SetNamespace remove the field
\* when the value is empty, and set nothing when "metadata" is no object
\* (SetNestedField fails and the setter drops its error)
SetContentFirst(ref, m) ==
    LET gvk == GroupVersionKind(ref.apiVersion, ref.kind)
        Set(v) == IF v = <<>> \/ m.metadata = "other" THEN Missing ELSE Field(v)
    IN  [json |-> "object",
         metadata |-> IF m.metadata = "other" THEN "other" ELSE "object",
         name |-> Set(ref.name),
         namespace |-> Set(ref.namespace),
         apiVersion |-> Field(GroupVersionString(gvk.group, gvk.version)),
         kind |-> Field(gvk.kind)]

\* lines 423-431: Target
Selector(ref) ==
    LET gvk == GroupVersionKind(ref.apiVersion, ref.kind)
    IN  [group |-> gvk.group, version |-> gvk.version, kind |-> gvk.kind,
         name |-> ref.name, namespace |-> ref.namespace]

\* a key that does not depend on the index
PatchKeyFixed(idx) == <<"patch", "-", 0>>

\* line 421: fmt.Sprintf("%s-%d", "patch", idx)
PatchKey(idx) == <<"patch", "-", idx>>

\* patches[key] = value
Put(map, key, body, target) ==
    {e \in map : e.key # key}
        \cup {[key |-> key, patch |-> body, target |-> target]}

\* a loop that skips the templates it cannot render
RECURSIVE RenderSkipping(_, _, _)
RenderSkipping(ps, idx, acc) ==
    IF idx >= Len(ps) THEN [err |-> FALSE, patches |-> acc]
    ELSE LET r == RenderTemplate(ps[idx + 1])
             u == Unmarshal(r.data)
         IN  IF r.err \/ u.err THEN RenderSkipping(ps, idx + 1, acc)
             ELSE RenderSkipping(ps, idx + 1,
                      Put(acc, PatchKey(idx), SetContentFirst(r.ref, u.m),
                          Selector(r.ref)))

\* lines 395-433: the loop over patchSpec from index idx on, acc being the
\* patches of the templates before it
RECURSIVE RenderFrom(_, _, _)
RenderFrom(ps, idx, acc) ==
    IF idx >= Len(ps) THEN [err |-> FALSE, patches |-> acc]
    ELSE LET r == RenderTemplate(ps[idx + 1])
             u == Unmarshal(r.data)
         IN  IF r.err \/ u.err THEN [err |-> TRUE, patches |-> {}]
             ELSE RenderFrom(ps, idx + 1,
                      Put(acc, PatchKey(idx), SetContentFirst(r.ref, u.m),
                          Selector(r.ref)))

\* lines 391-436
createKustomizePatches(ps) == RenderFrom(ps, 0, {})

\* a runner that goes on to the overlay after a failed rendering
RenderPatchesGoesOn ==
    /\ rpc = "createKustomizePatches"
    /\ Stage("createKustomizePatches")
    /\ LET r == createKustomizePatches(patchSpec)
       IN  /\ patches' = r.patches
           /\ rerr' = IF r.err THEN "createKustomizePatches failed" ELSE rerr
           /\ rpc' = "Yamls"
    /\ UNCHANGED <<trialName, oApplication, oExperiment, oResources,
                   appResources, trialList, wantedTrial, out>>
    /\ UNCHANGED <<inputFiles, fileData, inputData, patchSpec>>
    /\ UNCHANGED vars

\* lines 267-276
RenderPatches ==
    /\ rpc = "createKustomizePatches"
    /\ Stage("createKustomizePatches")
    /\ LET r == createKustomizePatches(patchSpec)
       IN  IF r.err
           THEN Return("createKustomizePatches failed") /\ UNCHANGED patches
           ELSE patches' = r.patches /\ rpc' = "Yamls" /\ UNCHANGED rerr
    /\ UNCHANGED <<trialName, oApplication, oExperiment, oResources,
                   appResources, trialList, wantedTrial, out>>
    /\ UNCHANGED <<inputFiles, fileData, inputData, patchSpec>>
    /\ UNCHANGED vars

\* lines 278-291
Yamls ==
    /\ rpc = "Yamls"
    /\ Stage("Yamls")
    /\ \/ Return("kustomize.Yamls failed")
       \/ rpc' = "Fprintln" /\ UNCHANGED rerr
    /\ UNCHANGED <<trialName, oApplication, oExperiment, oResources,
                   appResources, trialList, wantedTrial, out>>
    /\ UNCHANGED <<inputFiles, fileData, inputData, patchSpec, patches>>
    /\ UNCHANGED vars

\* lines 293-295
Fprintln ==
    /\ rpc = "Fprintln"
    /\ Stage("Fprintln")
    /\ out' = out + 1
    /\ Return("")
    /\ UNCHANGED <<trialName, oApplication, oExperiment, oResources,
                   appResources, trialList, wantedTrial>>
    /\ UNCHANGED <<inputFiles, fileData, inputData, patchSpec, patches>>
    /\ UNCHANGED vars

\* ---- the patch command as a system -------------------------------------
\* the controller is not running in the process of the command
RunnerIdle ==
    /\ pc = "Run" /\ sendSite = 0 /\ raised = <<>> /\ hePc = "notStarted"
    /\ ctxDone = FALSE /\ subscribed = FALSE /\ delivered = 0
    /\ activityCh = NoItem /\ activity = NoItem /\ completed = 0
    /\ scenario = NoScenario /\ applicationURL = "" /\ templateURL = ""
    /\ exp = "nil" /\ calls = <<>>
    /\ templates = [u \in TemplateLinks |-> 0]
    /\ cluster = [k \in Kinds |-> Absent]

\* Options as NewCommand leaves them when runner starts
OptionsNew ==
    /\ rpc = "runner"
    /\ oApplication = "nil" /\ oExperiment = "nil"
    /\ oResources = {} /\ appResources = {}
    /\ trialList = <<>> /\ wantedTrial = NoTrial
    /\ rerr = "" /\ out = 0 /\ stages = <<>>
    /\ inputData = <<>>
    /\ patches = {}

\* --trialname e-1
SomeTrialName == <<"e", "-", "1">>

\* one invocation of the command with some --trialname, on an input read from
\* stdin that holds an Experiment or an Application
PatchInit ==
    /\ RunnerIdle
    /\ OptionsNew
    /\ trialName \in TrialNames
    /\ inputFiles = {"-"}
    /\ fileData \in {OneDocument("Experiment"), OneDocument("Application")}
    /\ patchSpec = <<>>

\* one invocation of the command on some input files, with or without a
\* --trialname; without input files there are no documents
InputInit ==
    /\ RunnerIdle
    /\ OptionsNew
    /\ trialName \in {<<>>, SomeTrialName}
    /\ inputFiles \in SUBSET InputFiles
    /\ fileData \in (IF inputFiles = {} THEN {<<>>} ELSE Documents)
    /\ patchSpec \in {<<>>, <<FailingTemplate>>}

runner ==
    \/ CheckTrialName
    \/ readInput
    \/ extractApplication
    \/ extractExperiment
    \/ SwitchInput
    \/ generateExperiment
    \/ CheckExperiment
    \/ getTrialByID
    \/ RenderPatches
    \/ Yamls
    \/ Fprintln

PatchSpec == PatchInit /\ [][runner]_<<vars, patch>>

InputSpec == InputInit /\ [][runner]_<<vars, patch>>

\* runner about to render the patches of an Experiment read from stdin, the
\* trial e-1 found
RenderInit ==
    /\ RunnerIdle
    /\ rpc = "createKustomizePatches"
    /\ trialName = SomeTrialName
    /\ inputFiles = {"-"}
    /\ fileData = OneDocument("Experiment")
    /\ inputData = fileData
    /\ oApplication = "nil" /\ oExperiment = "direct"
    /\ oResources = {BaseName("-")} /\ appResources = {}
    /\ trialList = <<1>> /\ wantedTrial = [index |-> 1, number |-> 1]
    /\ rerr = "" /\ out = 0
    /\ stages = <<"runner", "readInput", "extractApplication",
                  "extractExperiment", "switch", "checkExperiment",
                  "getTrialByID">>
    /\ patchSpec \in PatchSpecs
    /\ patches = {}

Render ==
    \/ RenderPatches
    \/ Yamls
    \/ Fprintln

RenderSpec == RenderInit /\ [][Render]_<<vars, patch>>

\* ---- vocabulary of the properties --------------------------------------
IsClusterOp(c) == c[1] \in {"Get", "Create", "Update"}
IsRemoteCall(c) ==
    c[1] \in {"GetScenario", "GetApplication", "GetTemplate", "UpdateTemplate"}
CountCalls(op) == Cardinality({i \in DOMAIN calls : calls[i][1] = op})
NoClusterOp == \A i \in DOMAIN calls : ~IsClusterOp(calls[i])
\* Run is inside the handling of an activity
Handling == pc \notin {"Run", "subscribe", "await", "returned", "panicked"}
\* the handling of the current activity is over: Run is back at the loop top,
\* has returned, or is parked for good at an errCh send
HandlingEnded == pc \in {"await", "returned", "send"}
\* position of a kind in the documented deployment order
KindRank(k) ==
    CASE k = ServiceAccount -> 1
      [] k = ClusterRole -> 2
      [] k = ClusterRoleBinding -> 3
      [] k = ConfigMap -> 4
      [] k = Experiment -> 5

\* ---- C1 -----------------------------------------------------------------
\* C1: every error raised while handling an activity is pushed to the error
\* channel and the activity is abandoned at that point: from the send, the
\* loop gets back to awaiting the next activity with this activity counted as
\* over, no further call issued and no further error raised for it.
C1_ErrorAbandonsActivity ==
    /\ [][(pc = "send" /\ pc' # "send") =>
              (pc' = "await" /\ calls' = calls /\ raised' = raised)]_vars
    /\ (pc = "send") ~>
           (pc = "await" /\ completed = activity.n /\ Len(raised) = 1)

\* ---- C2 -----------------------------------------------------------------
\* C2: in the system as built, whenever the handling of an activity reports
\* an error the loop eventually awaits the next activity again, and an
\* activity offered by the subscriber is eventually taken unless Run returns.
C2_LoopResumesAfterError ==
    /\ (pc = "send") ~> (pc = "await")
    /\ (activityCh # NoItem) ~> (activityCh = NoItem \/ pc = "returned")

\* ---- C3 -----------------------------------------------------------------
\* C3: no task receives from errCh, so Run stays parked at the first error
\* send of the current activity: it never leaves the send, issues no further
\* call, raises no second error and never takes a later activity.
C3_SendBlocksForever ==
    [][pc = "send" =>
          /\ Len(raised) = 1
          /\ sendSite = raised[1]
          /\ pc' = "send"
          /\ sendSite' = sendSite
          /\ raised' = raised
          /\ activity' = activity
          /\ calls' = calls
          /\ completed' = completed]_vars

\* an error was sent, handleErrors is gone and a later activity is on offer
C3_Witness ==
    /\ pc = "send"
    /\ hePc = "returned"
    /\ activityCh.n = activity.n + 1

\* ---- C4 -----------------------------------------------------------------
\* C4: Run returns only when cancellation was signalled, and while it was not
\* signalled the loop is never left unable to go on: it is awaiting the next
\* activity or can take its next step.
C4_OnlyCancellationStopsLoop ==
    /\ pc = "returned" => ctxDone
    /\ (~ctxDone /\ Handling) => ENABLED Run

\* ---- C5 -----------------------------------------------------------------
\* C5: once cancellation is signalled Run eventually returns (an activity in
\* flight is first carried to the top of the loop).
C5_CancelledRunReturns ==
    (ctxDone /\ pc # "panicked") ~> (pc \in {"returned", "panicked"})

\* ---- C6 -----------------------------------------------------------------
\* C6: activities are handled one at a time in arrival order: Run takes an
\* activity only at the loop top, it is the one the subscriber offers, its
\* arrival number is one more than the previous one's, and every earlier
\* activity has reached the end of its handling.
C6_OneAtATimeInOrder ==
    [][/\ activity' # activity =>
              /\ pc = "await"
              /\ activity' = activityCh
              /\ activity'.n = activity.n + 1
              /\ completed = activity.n
       /\ Handling' => activity'.n = completed' + 1]_vars

\* the second activity is being handled after the first one was finished
C6_Witness ==
    /\ activity.n = 2
    /\ completed = 1
    /\ Handling
    /\ Len(calls) > 0

\* ---- C7 -----------------------------------------------------------------
\* C7: an activity with zero or several tags is rejected with exactly one
\* error and without any remote or cluster call, and the loop goes on to
\* await the next activity.
C7_BadTagCountRejected ==
    /\ [](Len(activity.tags) # 1 => (calls = <<>> /\ Len(raised) <= 1))
    /\ (pc = "send" /\ sendSite = 85) ~> (pc = "await" /\ raised = <<85>>)

\* ---- C8 -----------------------------------------------------------------
\* C8: within an activity the cluster operations follow the fixed order
\* ServiceAccount, ClusterRole, ClusterRoleBinding, ConfigMap, Experiment: an
\* operation on a kind is never followed by one on an earlier kind, a deploy
\* step starts only after the operations of all earlier kinds, and once the
\* Experiment has been operated on no other kind is.
C8_DeployOrderFixed ==
    /\ \A i, j \in DOMAIN calls :
           (i < j /\ IsClusterOp(calls[i]) /\ IsClusterOp(calls[j]))
               => KindRank(calls[i][2]) <= KindRank(calls[j][2])
    /\ pc \in Kinds =>
           /\ \A i \in DOMAIN calls :
                  IsClusterOp(calls[i]) => KindRank(calls[i][2]) < KindRank(pc)
           /\ \A k \in Kinds :
                  KindRank(k) < KindRank(pc) =>
                      \E i \in DOMAIN calls :
                          calls[i][1] = "Get" /\ calls[i][2] = k

\* a Run activity went through all five deploy steps
C8_Witness ==
    /\ activity.tags = <<TagRun>>
    /\ pc = "await"
    /\ \A k \in Kinds :
           \E i \in DOMAIN calls : calls[i][1] = "Get" /\ calls[i][2] = k

\* ---- C9 -----------------------------------------------------------------
\* C9: in a Run activity a cluster operation is issued only after GetTemplate
\* and the overlay have succeeded (after a failure of either, none is), and
\* the Experiment written to the cluster is the overlaid one.
C9_OverlayBeforeDeploy ==
    /\ ~NoClusterOp =>
           /\ activity.tags = <<TagRun>>
           /\ exp = "overlaid"
           /\ \E i \in DOMAIN calls :
                  /\ calls[i][1] = "GetTemplate"
                  /\ \A j \in DOMAIN calls : IsClusterOp(calls[j]) => i < j
    /\ (pc = "send" /\ sendSite \in {153, 159}) => NoClusterOp
    /\ \A i \in DOMAIN calls :
           (calls[i][1] \in {"Create", "Update"} /\ calls[i][2] = Experiment)
               => calls[i][3] = "overlaid"

\* a Run activity has written its Experiment to the cluster
C9_Witness ==
    /\ activity.tags = <<TagRun>>
    /\ cluster[Experiment] = [present |-> TRUE, by |-> activity.n]
    /\ \E i \in DOMAIN calls :
           calls[i][1] \in {"Create", "Update"} /\ calls[i][2] = Experiment

\* ---- C10 ----------------------------------------------------------------
\* C10 as stated: a Scan activity whose resolution steps succeeded (the
\* Experiment was extracted) has, once its handling is over, issued exactly
\* one UpdateTemplate at the scenario's template link, no GetTemplate and no
\* cluster operation.
C10_ScanUpsertsOnce ==
    (activity.tags = <<TagScan>> /\ exp = "fresh" /\ HandlingEnded) =>
        /\ CountCalls("UpdateTemplate") = 1
        /\ CountCalls("GetTemplate") = 0
        /\ NoClusterOp

\* C10 amended: a Scan activity issues no GetTemplate and no cluster
\* operation and writes nothing to the cluster; it issues at most one
\* UpdateTemplate, addressed to the scenario's template link; it has issued
\* exactly one when its resolution steps and the template derivation
\* succeeded, and none when the derivation failed.
C10_ScanUpsertsOnceIfDerived ==
    activity.tags = <<TagScan>> =>
        /\ CountCalls("GetTemplate") = 0
        /\ NoClusterOp
        /\ \A k \in Kinds : cluster[k].present => cluster[k].by # activity.n
        /\ \A i \in DOMAIN calls :
               calls[i][1] = "UpdateTemplate" =>
                   (calls[i][2] = scenario.template /\ calls[i][2] # "")
        /\ (exp = "fresh" /\ HandlingEnded) =>
               CountCalls("UpdateTemplate") = IF sendSite = 138 THEN 0 ELSE 1

\* a Scan activity was carried through: its template is stored remotely
C10_Witness ==
    /\ activity.tags = <<TagScan>>
    /\ pc = "await"
    /\ CountCalls("UpdateTemplate") = 1
    /\ templates[scenario.template] = activity.n

\* ---- vocabulary of the deployer properties -----------------------------
\* entries of the log that are cluster calls of `op` on `kind`
OpsOn(op, kind) ==
    {i \in DOMAIN calls : calls[i][1] = op /\ calls[i][2] = kind}
\* the kinds deployed create-only and the kinds deployed by upsert
CreateOnlyKinds == {ServiceAccount, ClusterRole, ClusterRoleBinding}
UpsertKinds == {ConfigMap, Experiment}
\* source line of the errCh send reporting a failed write on a kind
WriteErrSite(op, kind) ==
    CASE op = "Create" /\ kind = ServiceAccount -> 227
      [] op = "Create" /\ kind = ClusterRole -> 243
      [] op = "Create" /\ kind = ClusterRoleBinding -> 258
      [] op = "Create" /\ kind = ConfigMap -> 273
      [] op = "Update" /\ kind = ConfigMap -> 277
      [] op = "Create" /\ kind = Experiment -> 287
      [] op = "Update" /\ kind = Experiment -> 293
      [] OTHER -> 0
WriteErrSites == {227, 243, 258, 273, 277, 287, 293}
\* errCh sends of the deploy step of a kind
StepErrSites(kind) ==
    CASE kind = ServiceAccount -> {219, 227}
      [] kind = ClusterRole -> {235, 243}
      [] kind = ClusterRoleBinding -> {251, 258}
      [] kind = ConfigMap -> {266, 273, 277}
      [] kind = Experiment -> {287, 293}
RaisedSites == {raised[i] : i \in DOMAIN raised}
FailedCalls == {i \in DOMAIN calls : IsClusterOp(calls[i]) /\ ~calls[i][4]}

C12_UpdateOnlyForUpsertKinds ==
    /\ [](\A i \in DOMAIN calls : (calls[i][1] = "Get" /\ calls[i][4]) =>
              LET k == calls[i][2] IN
              /\ OpsOn("Create", k) = {}
              /\ k \in UpsertKinds => OpsOn("Update", k) = {i + 1}
              /\ k \in CreateOnlyKinds =>
                     /\ OpsOn("Update", k) = {}
                     /\ RaisedSites \cap StepErrSites(k) = {}
                     /\ cluster[k].present
                     /\ cluster[k].by # activity.n)
    /\ [][\A k \in CreateOnlyKinds :
              cluster'[k] # cluster[k] =>
                  \E i \in DOMAIN calls' :
                      calls'[i][1] = "Get" /\ calls'[i][2] = k /\ ~calls'[i][4]]_vars

\* the ServiceAccount was found and left alone, the ConfigMap was found and
\* updated
C12_Witness ==
    /\ \E i \in OpsOn("Get", ServiceAccount) : calls[i][4]
    /\ cluster[ServiceAccount] = [present |-> TRUE, by |-> 0]
    /\ \E i \in OpsOn("Get", ConfigMap) : calls[i][4]
    /\ \E i \in OpsOn("Update", ConfigMap) : calls[i][4]
    /\ cluster[ConfigMap].by = activity.n

\* ---- C13 ----------------------------------------------------------------
\* C13: within one activity each kind gets at most one Get and at most one
\* write, a Create or an Update but not both; a failed call is not repeated.
C13_AtMostOneAttempt ==
    \A k \in Kinds :
        /\ Cardinality(OpsOn("Get", k)) <= 1
        /\ Cardinality(OpsOn("Create", k) \cup OpsOn("Update", k)) <= 1

\* a Create failed and was reported without a second attempt
C13_Witness ==
    /\ pc = "send"
    /\ sendSite = 227
    /\ \E i \in OpsOn("Create", ServiceAccount) : ~calls[i][4]

\* ---- C14 ----------------------------------------------------------------
\* C14 as stated: every failed cluster call of the deployer (Get, Create or
\* Update) has an error of its own pushed to the error channel: there are as
\* many deployer errors as failed cluster calls.
C14_EveryFailureReported ==
    Cardinality(FailedCalls) = Cardinality(RaisedSites \cap WriteErrSites)

\* C14 amended: every failed Create or Update has one error pushed to the
\* error channel, raised at the send that names its kind and operation, and
\* no such error is raised without a failed write; a failed Get is not
\* reported.
C14_WriteFailureReported ==
    /\ \A i \in FailedCalls :
           calls[i][1] # "Get" => WriteErrSite(calls[i][1], calls[i][2]) \in RaisedSites
    /\ \A r \in RaisedSites \cap WriteErrSites :
           \E i \in FailedCalls : WriteErrSite(calls[i][1], calls[i][2]) = r
    /\ Cardinality({i \in FailedCalls : calls[i][1] # "Get"})
           = Cardinality({i \in DOMAIN raised : raised[i] \in WriteErrSites})

\* the Update of the ConfigMap failed and was reported
C14_Witness ==
    /\ pc = "send"
    /\ sendSite = 277
    /\ \E i \in OpsOn("Update", ConfigMap) : ~calls[i][4]

\* ---- C15 ----------------------------------------------------------------
\* the deploy step of an upsert kind is about to run for the second time in
\* a row: the previous activity stored the object of that kind
SecondInvocation(k) ==
    /\ pc = k
    /\ activity.n > 1
    /\ cluster[k] = [present |-> TRUE, by |-> activity.n - 1]
\* the cluster calls the step taken from this state has issued
NewCalls == SubSeq(calls', Len(calls) + 1, Len(calls'))
IsCall(c, op, kind, ok) == c[1] = op /\ c[2] = kind /\ c[4] = ok

C16_NoRollbackNoShortCircuit ==
    /\ [][\A k \in Kinds :
              (activity' = activity /\ cluster[k] = [present |-> TRUE, by |-> activity.n])
                  => cluster'[k] = cluster[k]]_vars
    /\ (pc = "send" /\ sendSite \in UNION {StepErrSites(k) : k \in Kinds \ {Experiment}})
           ~> (OpsOn("Get", Experiment) # {})

\* ---- C17 ----------------------------------------------------------------
\* C17: a missing application or template link is reported and the activity
\* goes on: GetApplication is then called with the URL derived from the
\* scenario, empty or not.
C17_MissingLinkGoesOn ==
    /\ [](pc = "linkTemplate" /\ scenario.up = "" => 102 \in RaisedSites)
    /\ (pc = "send" /\ sendSite \in {102, 107})
           ~> (\E i \in DOMAIN calls :
                  calls[i][1] = "GetApplication" /\ calls[i][2] = scenario.up)


\* ---- vocabulary of the patch properties ---------------------------------
\* the stage has run in this invocation
Ran(stage) == \E i \in DOMAIN stages : stages[i] = stage

\* getTrialByID has run and getTrials handed it a list
ListObtained == Ran("getTrialByID") /\ rerr \notin GetTrialsErrors

DigitChar(v) == CHOOSE c \in Digits : DigitVal(c) = v

\* the decimal numeral of a natural number
RECURSIVE Decimal(_)
Decimal(n) ==
    IF n < 10 THEN <<DigitChar(n)>>
    ELSE Append(Decimal(n \div 10), DigitChar(n % 10))

\* name is <exp>-<n>, the "-" at position k and n a non-negative integer
HasNumberAt(name, k) ==
    /\ name[k] = "-"
    /\ k < Len(name)
    /\ \A j \in (k + 1)..Len(name) : name[j] \in Digits

\* the trial Number `number` is the n of the name <exp>-<n> split at k
IsNumberOf(number, name, k) ==
    Decimal(number) = StripZeros(SubSeq(name, k + 1, Len(name)))

\* positions of the trial list whose Number is the n of the name
Matches(name, k) ==
    {i \in DOMAIN trialList : IsNumberOf(trialList[i], name, k)}

First(S) == CHOOSE i \in S : \A j \in S : i <= j

\* ---- C18 ----------------------------------------------------------------
\* C18 (as stated): for every trial name <exp>-<n> with n a non-negative
\* integer and every trial list the API returns, getTrialByID returns the
\* first trial of the list whose Number is n, and fails with "trial not
\* found" when the list holds none; it never returns another Number.
C18_FirstMatchOrNotFound ==
    \A k \in DOMAIN trialName :
        (ListObtained /\ HasNumberAt(trialName, k)) =>
            LET hits == Matches(trialName, k)
            IN  IF hits # {}
                THEN wantedTrial = [index |-> First(hits),
                                    number |-> trialList[First(hits)]]
                ELSE wantedTrial = NoTrial /\ rerr = "trial not found"

\* C18 (amended): the same for every n that fits an int; for a larger n no
\* trial is returned and getTrialByID fails with the range error of
\* strconv.Atoi instead of "trial not found".
C18_FirstMatchOrNotFoundInRange ==
    \A k \in DOMAIN trialName :
        (ListObtained /\ HasNumberAt(trialName, k)) =>
            LET hits == Matches(trialName, k)
                n == SubSeq(trialName, k + 1, Len(trialName))
                big == Len(StripZeros(n)) >= Len(MaxIntDigits)
            IN  IF hits # {}
                THEN wantedTrial = [index |-> First(hits),
                                    number |-> trialList[First(hits)]]
                ELSE /\ wantedTrial = NoTrial
                     /\ rerr = IF big /\ OutOfRange(n)
                               THEN "value out of range" ELSE "trial not found"

\* two trials of the list carry the wanted Number and the first is returned
C18_Witness ==
    /\ \E k \in DOMAIN trialName : HasNumberAt(trialName, k)
    /\ Len(trialList) = 2
    /\ trialList[1] = trialList[2]
    /\ wantedTrial = [index |-> 1, number |-> trialList[1]]
    /\ rpc = "createKustomizePatches"

\* ---- C19 ----------------------------------------------------------------
\* C19: for every trial name whose segment after the last "-" is not a
\* non-negative base-10 integer (empty, alphabetic, signed, or a name without
\* "-" that is not a number), getTrialByID fails with the parse error and
\* selects no trial, whatever list the API returns.
C19_InvalidSuffixRejected ==
    LET segment == TrialNum(trialName)
        numeric == segment # <<>> /\ \A i \in DOMAIN segment : segment[i] \in Digits
    IN  (ListObtained /\ ~numeric) =>
            wantedTrial = NoTrial /\ rerr = "invalid syntax"

\* ---- C20 ----------------------------------------------------------------
\* generateExperiment returned without finding an Experiment in the list
GeneratedNone ==
    /\ Ran("generateExperiment")
    /\ rerr # "generateExperiment failed"
    /\ oExperiment # "generated"

\* runner has stopped with an error and never looked a trial up
ErrorBeforeLookup ==
    /\ rpc # "getTrialByID"
    /\ ~Ran("getTrialByID")
    /\ Ran("checkExperiment") => (rpc = "returned" /\ rerr # "")

\* trial lookup, patch rendering and overlay composition
AfterResolution ==
    {"getTrialByID", "createKustomizePatches", "Yamls", "Fprintln"}

\* C20 (as stated): the trial lookup and the stages after it are reached only
\* with a resolved Experiment; with neither an Application nor an Experiment
\* in the input, or when generation yields no Experiment, runner returns an
\* error before any trial lookup.
C20_LookupNeedsExperiment ==
    /\ (rpc \in AfterResolution \/ \E st \in AfterResolution : Ran(st))
           => oExperiment \in {"direct", "generated"}
    /\ (Ran("switch") /\ oApplication = "nil" /\ oExperiment = "nil")
           => (rpc = "returned" /\ rerr # "" /\ ~Ran("getTrialByID"))
    /\ GeneratedNone => ErrorBeforeLookup

\* C20 (amended): as above, but generation yielding no Experiment is an error
\* only when the input supplied no Experiment either; with both in the input
\* the supplied Experiment is the resolved one.
C20_LookupNeedsExperimentOrDirect ==
    /\ (rpc \in AfterResolution \/ \E st \in AfterResolution : Ran(st))
           => oExperiment \in {"direct", "generated"}
    /\ (Ran("switch") /\ oApplication = "nil" /\ oExperiment = "nil")
           => (rpc = "returned" /\ rerr # "" /\ ~Ran("getTrialByID"))
    /\ (GeneratedNone /\ oExperiment = "nil") => ErrorBeforeLookup
    /\ (GeneratedNone /\ Ran("checkExperiment") /\ oExperiment = "direct")
           => (rpc = "getTrialByID" \/ Ran("getTrialByID"))

\* the lookup has run on an Experiment generated from the Application
C20_Witness ==
    /\ Ran("getTrialByID")
    /\ Ran("generateExperiment")
    /\ oApplication = "app"
    /\ oExperiment = "generated"


\* ---- C21 ----------------------------------------------------------------
\* the names readInput tracked while aggregating the input files
AggregatedNames == {BaseName(f) : f \in inputFiles}

\* C21 (as stated): when an Application is present in the input, the resource
\* names handed to kustomize.Yamls are exactly the files the Application
\* declares: the names collected from the input files are discarded and no
\* other name is in the set.
C21_ResourcesAreDeclaredFiles ==
    (Ran("Yamls") /\ oApplication = "app") => oResources = appResources

\* C21 (amended): the set holds the declared files, none of the aggregated
\* names unless declared, and besides them only the asset files
\* generateExperiment wrote: application-assets0.yaml up to the asset of the
\* Experiment it found.
C21_ResourcesAreDeclaredFilesAndAssets ==
    (Ran("Yamls") /\ oApplication = "app") =>
        /\ appResources \subseteq oResources
        /\ \A n \in AggregatedNames : n \in oResources => n \in appResources
        /\ \A n \in oResources \ appResources :
               \E i \in 0..(MaxItems - 1) :
                   /\ n = AssetName(i)
                   /\ \A j \in 0..i : AssetName(j) \in oResources
        /\ oExperiment = "generated" => AssetName(0) \in oResources

\* the overlay is built for an Application that declares a file, on an input
\* read from files, with a generated asset
C21_Witness ==
    /\ Ran("Yamls")
    /\ oApplication = "app"
    /\ AggregatedNames # {}
    /\ appResources # {}
    /\ AssetName(0) \in oResources


\* ---- C22 ----------------------------------------------------------------
\* the stages of runner in the order of its source
PipelineOrder ==
    <<"runner", "readInput", "extractApplication", "extractExperiment",
      "switch", "generateExperiment", "checkExperiment", "getTrialByID",
      "createKustomizePatches", "Yamls", "Fprintln">>

StageRank(stage) == CHOOSE i \in DOMAIN PipelineOrder : PipelineOrder[i] = stage

\* the stage an error of runner comes from
ErrorStage(err) ==
    CASE err = "a trial name must be specified" -> "runner"
      [] err = "readInput failed" -> "readInput"
      [] err = "got an error when looking for application" -> "extractApplication"
      [] err = "got an error when looking for experiment" -> "extractExperiment"
      [] err = "unable to identify an experiment or application" -> "switch"
      [] err = "generateExperiment failed" -> "generateExperiment"
      [] err = "unable to find an experiment" -> "checkExperiment"
      [] err = "createKustomizePatches failed" -> "createKustomizePatches"
      [] err = "kustomize.Yamls failed" -> "Yamls"
      [] OTHER -> "getTrialByID"

\* C22: runner stops at the first failing stage and runs no later one; it
\* writes nothing to standard output on an error path, and writes exactly once
\* after every stage succeeded.
C22_FailFastNoPartialOutput ==
    /\ \A i, j \in DOMAIN stages :
           i < j => StageRank(stages[i]) < StageRank(stages[j])
    /\ rerr # "" =>
           /\ rpc = "returned"
           /\ out = 0
           /\ stages[Len(stages)] = ErrorStage(rerr)
    /\ out \in {0, 1}
    /\ out = 1 <=> Ran("Fprintln")
    /\ out = 1 =>
           /\ rerr = ""
           /\ \A st \in {PipelineOrder[i] : i \in DOMAIN PipelineOrder} :
                  Ran(st) \/ (st = "generateExperiment" /\ oApplication = "nil")

\* the rendering stage has failed: nothing was written and no overlay built
C22_Witness ==
    /\ rerr = "createKustomizePatches failed"
    /\ rpc = "returned"
    /\ out = 0
    /\ ~Ran("Yamls")


\* ---- vocabulary of the rendering properties ------------------------------
\* createKustomizePatches has returned a mapping
Rendered == Ran("createKustomizePatches") /\ rerr # "createKustomizePatches failed"

\* the value of a string field read back from a JSON object
Read(field) == IF field.present THEN field.val ELSE <<>>

\* Name, Namespace and Group/Version/Kind of a target reference
Identity(ref) ==
    LET gvk == GroupVersionKind(ref.apiVersion, ref.kind)
    IN  [name |-> ref.name, namespace |-> ref.namespace, group |-> gvk.group,
         version |-> gvk.version, kind |-> gvk.kind]

\* the identity got by parsing a serialized patch body back
ParsedIdentity(json) ==
    LET gvk == GroupVersionKind(Read(json.apiVersion), Read(json.kind))
    IN  [name |-> Read(json.name), namespace |-> Read(json.namespace),
         group |-> gvk.group, version |-> gvk.version, kind |-> gvk.kind]

\* the template a key of the mapping belongs to (1-based position)
TemplatesOf(key) == {i \in DOMAIN patchSpec : key = <<"patch", "-", i - 1>>}

\* ---- C23 ----------------------------------------------------------------
\* C23: for every rendered patch, the Name, Namespace and Group/Version/Kind
\* read back from the serialized patch body, and those of its Selector, are
\* the ones of the target reference of its template, whatever metadata the
\* template body carried.
C23_TargetMetadataWins ==
    Rendered =>
        \A e \in patches : \A i \in TemplatesOf(e.key) :
            /\ ParsedIdentity(e.patch) = Identity(patchSpec[i].target)
            /\ e.target = Identity(patchSpec[i].target)

\* ---- C24 ----------------------------------------------------------------
\* C24: for N templates that all render, the mapping has exactly N entries,
\* keyed patch-0 .. patch-(N-1), the entry patch-i carrying the target of the
\* i-th template; no key is shared and no entry overwritten.
C24_KeysFollowDeclarationOrder ==
    Rendered =>
        /\ Cardinality(patches) = Len(patchSpec)
        /\ {e.key : e \in patches} =
               {<<"patch", "-", i>> : i \in 0..(Len(patchSpec) - 1)}
        /\ \A e \in patches : \A i \in TemplatesOf(e.key) :
               /\ e.target.name = patchSpec[i].target.name
               /\ e.target.namespace = patchSpec[i].target.namespace
               /\ e.target.kind = patchSpec[i].target.kind

\* two templates with different targets have been rendered
C24_Witness ==
    /\ Rendered
    /\ Len(patchSpec) = 2
    /\ patchSpec[1].target # patchSpec[2].target
    /\ Cardinality(patches) = 2

\* ---- C25 ----------------------------------------------------------------
\* the template fails to render, or renders to data that is no JSON object, or
\* to an empty target
Unmergeable(t) == t.fails \/ t.data.json # "object" \/ t.target = EmptyRef

\* C25: when a template of the list fails to render, renders to a body that
\* is no JSON object, or to an empty target, createKustomizePatches returns
\* an error and no mapping, not even the patches rendered before; a mapping
\* is returned only when every template is mergeable.
C25_AllOrNothing ==
    Ran("createKustomizePatches") =>
        IF \E i \in DOMAIN patchSpec : Unmergeable(patchSpec[i])
        THEN rerr = "createKustomizePatches failed" /\ patches = {}
        ELSE rerr # "createKustomizePatches failed"

\* the template fails to render, or renders to data json.Unmarshal rejects,
\* or to an empty target
Rejected(t) ==
    t.fails \/ t.data.json \in {"invalid", "array"} \/ t.target = EmptyRef

\* C25 (amended): as above, except that a body that is the JSON null is
\* merged like an empty object: its patch carries the metadata of the target
\* and nothing else.
C25_AllOrNothingButNull ==
    Ran("createKustomizePatches") =>
        IF \E i \in DOMAIN patchSpec : Rejected(patchSpec[i])
        THEN rerr = "createKustomizePatches failed" /\ patches = {}
        ELSE /\ rerr # "createKustomizePatches failed"
             /\ \A i \in DOMAIN patchSpec :
                    \E e \in patches :
                        /\ i \in TemplatesOf(e.key)
                        /\ e.patch.json = "object"
                        /\ patchSpec[i].data = NullJSON =>
                               Read(e.patch.name) = patchSpec[i].target.name

\* the second template is unmergeable after a first one that rendered
C25_Witness ==
    /\ Ran("createKustomizePatches")
    /\ Len(patchSpec) = 2
    /\ ~Unmergeable(patchSpec[1])
    /\ patchSpec[2].data = ArrayJSON
    /\ rerr = "createKustomizePatches failed"
    /\ patches = {}


\* ---- C26 ----------------------------------------------------------------
\* the documents of the kind, in input order
OfKind(kind, input) == SelectSeq(input, LAMBDA doc : doc.kind = kind)

\* GetMeta fails on a document of the input
HasUnreadable(input) == \E i \in DOMAIN input : input[i].kind = Unreadable

\* C26: the kind filter returns exactly the input documents of the requested
\* kind, in input order; filtering its own output gives the same result;
\* nothing matching gives an empty result and no error, and the Application
\* or Experiment is then absent; a document whose metadata cannot be read
\* gives an error.
C26_FilterExactIdempotent ==
    /\ \A kind \in DocKinds :
           LET found == filter(kind, inputData)
           IN  /\ found.err <=> HasUnreadable(inputData)
               /\ ~found.err =>
                      /\ found.output = OfKind(kind, inputData)
                      /\ filter(kind, found.output) = found
               /\ found.err => found.output = <<>>
    /\ Ran("extractApplication") =>
           IF HasUnreadable(inputData)
           THEN /\ rpc = "returned"
                /\ rerr = "got an error when looking for application"
           ELSE /\ (OfKind("Application", inputData) = <<>>)
                       <=> (oApplication = "nil")
                /\ (OfKind("Application", inputData) = <<>>)
                       => rerr # "got an error when looking for application"
    /\ Ran("extractExperiment") =>
           /\ ~HasUnreadable(inputData)
           /\ (OfKind("Experiment", inputData) = <<>>)
                  => /\ oExperiment # "direct"
                     /\ rerr # "got an error when looking for experiment"
           /\ (OfKind("Experiment", inputData) # <<>>)
                  => oExperiment \in {"direct", "generated"}

\* both extractions have run on an input of two Applications: both are
\* found and no Experiment
C26_Witness ==
    /\ Ran("extractExperiment")
    /\ Len(inputData) = 2
    /\ Len(filter("Application", inputData).output) = 2
    /\ oApplication = "app"
    /\ oExperiment = "nil"
    /\ rerr = ""


\* ---- vocabulary of the frame properties ----------------------------------
\* the current activity has touched neither the remote template nor the
\* cluster
NoTemplateOrClusterEffect ==
    /\ \A i \in DOMAIN calls :
           calls[i][1] \notin {"UpdateTemplate", "GetTemplate", "Get", "Create",
                               "Update"}
    /\ \A u \in TemplateLinks : templates[u] # activity.n
    /\ \A k \in Kinds : cluster[k].present => cluster[k].by # activity.n

\* the errCh sends of the steps before the tag branch: GetScenario,
\* GetApplication, scan, generateApp, yaml.Unmarshal
EarlySites == {95, 112, 118, 124, 130}

\* ---- C27 ----------------------------------------------------------------
\* C27: when GetScenario, GetApplication, the scan, the rendering or the
\* extraction of the Experiment fails, the activity does no UpdateTemplate,
\* no GetTemplate and no cluster Get/Create/Update, and leaves the remote
\* template and the cluster as they were.
C27_EarlyFailureNoEffect ==
    (activity # NoItem /\ RaisedSites \cap EarlySites # {})
        => NoTemplateOrClusterEffect

\* the extraction of the Experiment has failed, after both remote fetches
C27_Witness ==
    /\ activity # NoItem
    /\ pc = "send"
    /\ sendSite = 130
    /\ CountCalls("GetScenario") = 1
    /\ CountCalls("GetApplication") = 1

\* ---- C28 ----------------------------------------------------------------
\* C28: an activity with exactly one tag that is neither Scan nor Run is
\* resolved and rendered like any other, and then nothing is done for it: no
\* template upsert or fetch, no cluster operation, and no error for the tag;
\* its handling ends at the loop top after the two fetches and the rendering.
C28_UnknownTagNoAction ==
    (activity # NoItem /\ activity.tags = <<TagOther>>) =>
        /\ NoTemplateOrClusterEffect
        /\ RaisedSites \subseteq EarlySites \cup {102, 107}
        /\ pc \in {"tags", "getScenario", "linkUp", "linkTemplate",
                   "getApplication", "scan", "generateApp", "unmarshal",
                   "switch", "send", "await", "returned"}
        /\ (pc \in {"await", "returned"}) =>
               /\ raised = <<>>
               /\ exp = "fresh"
               /\ CountCalls("GetScenario") = 1
               /\ CountCalls("GetApplication") = 1
               /\ Len(calls) = 2

\* an activity tagged with an unknown tag has been handled to its end
C28_Witness ==
    /\ activity # NoItem
    /\ activity.tags = <<TagOther>>
    /\ pc = "await"
    /\ exp = "fresh"
    /\ completed >= 1

====
